---- MODULE Spec2Model ----
(***************************************************************************)
(* A model of rsdsl/rtd (src/main.rs): the route / rule definition         *)
(* parsers (Route::from_str, Rule::from_str, Routes::from_str,             *)
(* Rules::from_str) and the reconciliation loop of run() / main().         *)
(*                                                                         *)
(* A line of text is the sequence of its whitespace-separated words (what  *)
(* str::split_whitespace yields); a file's text is the sequence of its     *)
(* lines (what str::lines yields).  The kernel is the set of installed     *)
(* route / rule keys behind the rsdsl_netlinklib Connection.               *)
(***************************************************************************)
EXTENDS Integers, Sequences, FiniteSets, TLC

VARIABLES
    pc,          \* position of main()/run(): see PcValues
    routesFile,  \* /data/static.rt : [readable, text]
    rulesFile,   \* /data/policies.rl : [readable, text]
    routes,      \* Routes.routes, the parsed Vec<Route>
    rules,       \* Rules.rules, the parsed Vec<Rule>
    idx,         \* index of the entry the for loop is at
    conn,        \* TRUE once Connection::new() returned Ok
    kernel,      \* set of route / rule keys installed in the kernel
    calls,       \* history: the Connection calls issued so far, in order
    parsed,      \* history: the files whose text was handed to the parser
    result,      \* what run() returned ("none" while it runs)
    reports,     \* number of "[warn] {e}" lines main() printed to stderr
    faults,      \* number of kernel calls the kernel rejected for other reasons
    runs,        \* number of times the process was started
    prevKernel,  \* kernel contents when the previous process parked
    line,        \* parser harness: the line under test
    lineKind,    \* parser harness: "route" or "rule"
    lineResult,  \* parser harness: Result of from_str (Pending before)
    lineAgain    \* parser harness: the Display text of the parsed value and
                 \* the Result of parsing that text (Pending before)

vars == <<pc, routesFile, rulesFile, routes, rules, idx, conn, kernel, calls,
          parsed, result, reports, faults, runs, prevKernel,
          line, lineKind, lineResult, lineAgain>>

runVars == <<pc, routesFile, rulesFile, routes, rules, idx, conn, kernel, calls,
             parsed, result, reports, faults, runs, prevKernel>>

lineVars == <<line, lineKind, lineResult, lineAgain>>

----------------------------------------------------------------------------
(* Option and Result *)

None == [some |-> FALSE]
Some(v) == [some |-> TRUE, val |-> v]

Ok(v) == [ok |-> TRUE, val |-> v]
Err(e) == [ok |-> FALSE, err |-> e]

----------------------------------------------------------------------------
(* Text primitives of the standard library, on the words of the vocabulary *)

\* str::split('/') : the pieces of a word around its '/' characters
SplitSlash(w) ==
    CASE w = "10.0.0.0/8"   -> <<"10.0.0.0", "8">>
      [] w = "fd00::/8"     -> <<"fd00::", "8">>
      [] w = "10.0.0.0/8/1" -> <<"10.0.0.0", "8", "1">>
      [] w = "10.0.0.0/300" -> <<"10.0.0.0", "300">>
      [] w = "net/8"        -> <<"net", "8">>
      [] OTHER              -> <<w>>

\* <IpAddr as FromStr>::from_str
ParseIpAddr(w) ==
    CASE w = "10.0.0.0" -> Ok([fam |-> 4, a |-> w])
      [] w = "10.0.0.1" -> Ok([fam |-> 4, a |-> w])
      [] w = "fd00::"   -> Ok([fam |-> 6, a |-> w])
      [] w = "fd00::1"  -> Ok([fam |-> 6, a |-> w])
      [] OTHER          -> Err("ParseAddr")

\* the decimal value of a word, -1 when it is not an unsigned decimal number
DecimalValue(w) ==
    CASE w = "0"   -> 0
      [] w = "1"   -> 1
      [] w = "7"   -> 7
      [] w = "8"   -> 8
      [] w = "50"  -> 50
      [] w = "300" -> 300
      [] OTHER     -> -1

U8Bits == 8
U32Bits == 32

\* <u8 as FromStr>::from_str / <u32 as FromStr>::from_str : the value must fit
\* in `bits` bits (v < 2^bits, computed without leaving 32-bit arithmetic)
ParseUInt(w, bits) ==
    LET v == DecimalValue(w)
        half == bits \div 2
    IN  IF v >= 0 /\ (v \div (2 ^ half)) < 2 ^ (bits - half)
        THEN Ok(v)
        ELSE Err("ParseInt")

\* <bool as FromStr>::from_str
ParseBool(w) ==
    CASE w = "true"  -> Ok(TRUE)
      [] w = "false" -> Ok(FALSE)
      [] OTHER       -> Err("ParseBool")

----------------------------------------------------------------------------
(* Attribute tokenizer: the HashMap built from the words after the command *)

\* the loop "for word in words": st = [attrs, current_attr, err]
RECURSIVE TokenLoop(_, _)
TokenLoop(words, st) ==
    IF words = <<>> \/ st.err # "" THEN st
    ELSE LET word == Head(words) IN
         IF st.current_attr.some
         THEN LET attr == st.current_attr.val IN
              IF attr \in DOMAIN st.attrs
              THEN [st EXCEPT !.err = "DuplicateAttr"]
              ELSE TokenLoop(Tail(words),
                     [st EXCEPT !.attrs = (attr :> word) @@ st.attrs,
                                !.current_attr = None])
         ELSE TokenLoop(Tail(words), [st EXCEPT !.current_attr = Some(word)])

EmptyMap == [k \in {} |-> ""]

\* Ok(attrs) or the tokenizer's error
Tokenize(words) ==
    LET st == TokenLoop(words, [attrs |-> EmptyMap, current_attr |-> None, err |-> ""])
    IN  IF st.err # "" THEN Err(st.err)
        ELSE IF st.current_attr.some THEN Err("NoAttrValue")
        ELSE Ok(st.attrs)

\* the orders in which "for (attr, value) in attrs" may visit the keys
IterationOrders(attrs) ==
    LET n == Cardinality(DOMAIN attrs)
    IN  {o \in [1..n -> DOMAIN attrs] : \A a, b \in 1..n : a # b => o[a] # o[b]}

\* value.split('/') followed by addr.parse()? and cidr.parse()? : Ok(<<addr, len>>)
ParsePrefix(value) ==
    LET prefix == SplitSlash(value) IN
    IF Len(prefix) < 2 THEN Err("InvalidCidr")
    ELSE IF Len(prefix) > 2 THEN Err("InvalidCidr")
    ELSE LET addr == ParseIpAddr(prefix[1])
             cidr == ParseUInt(prefix[2], U8Bits)
         IN  IF ~addr.ok THEN Err(addr.err)
             ELSE IF ~cidr.ok THEN Err(cidr.err)
             ELSE Ok(<<addr.val, cidr.val>>)

----------------------------------------------------------------------------
(* Route::from_str *)

RouteAttrInit ==
    [err |-> "", dst |-> None, prefix_len |-> None, rtr |-> None,
     on_link |-> FALSE, table |-> None, metric |-> None, link |-> None]

\* one iteration of "for (attr, value) in attrs { match attr { ... } }"
RouteAttrStep(acc, attr, value) ==
    CASE attr = "to" ->
           LET p == ParsePrefix(value) IN
           IF p.ok THEN [acc EXCEPT !.dst = Some(p.val[1]), !.prefix_len = Some(p.val[2])]
           ELSE [acc EXCEPT !.err = p.err]
      [] attr = "via" ->
           LET r == ParseIpAddr(value) IN
           IF r.ok THEN [acc EXCEPT !.rtr = Some(r.val)] ELSE [acc EXCEPT !.err = r.err]
      [] attr = "onlink" ->
           LET r == ParseBool(value) IN
           IF r.ok THEN [acc EXCEPT !.on_link = r.val] ELSE [acc EXCEPT !.err = r.err]
      [] attr = "table" ->
           LET r == ParseUInt(value, U32Bits) IN
           IF r.ok THEN [acc EXCEPT !.table = Some(r.val)] ELSE [acc EXCEPT !.err = r.err]
      [] attr = "metric" ->
           LET r == ParseUInt(value, U32Bits) IN
           IF r.ok THEN [acc EXCEPT !.metric = Some(r.val)] ELSE [acc EXCEPT !.err = r.err]
      [] attr = "dev" -> [acc EXCEPT !.link = Some(value)]
      [] OTHER -> [acc EXCEPT !.err = "InvalidAttr"]

RECURSIVE RouteAttrLoop(_, _, _)
RouteAttrLoop(attrs, order, acc) ==
    IF Len(order) = 0 \/ acc.err # "" THEN acc
    ELSE RouteAttrLoop(attrs, Tail(order),
                       RouteAttrStep(acc, Head(order), attrs[Head(order)]))

\* mutant of RouteAssemble: the gateway's family is not checked
RouteAssembleNoRtrCheck(fam, delete, acc) ==
    IF ~(acc.dst.some /\ acc.dst.val.fam = fam)
    THEN Err(IF fam = 4 THEN "DstNotIpv4" ELSE "DstNotIpv6")
    ELSE IF ~acc.prefix_len.some THEN Err("NoDst")
    ELSE IF ~acc.link.some THEN Err("NoLink")
    ELSE Ok([delete |-> delete,
             def |-> [fam |-> fam, dst |-> acc.dst.val.a,
                      prefix_len |-> acc.prefix_len.val,
                      rtr |-> IF acc.rtr.some THEN Some(acc.rtr.val.a) ELSE None,
                      on_link |-> acc.on_link, table |-> acc.table,
                      metric |-> acc.metric, link |-> acc.link.val]])

\* "match version { ... }": the family check that assembles Route4 / Route6
RouteAssemble(fam, delete, acc) ==
    IF ~(acc.dst.some /\ acc.dst.val.fam = fam)
    THEN Err(IF fam = 4 THEN "DstNotIpv4" ELSE "DstNotIpv6")
    ELSE IF ~acc.prefix_len.some THEN Err("NoDst")
    ELSE IF acc.rtr.some /\ acc.rtr.val.fam # fam
    THEN Err(IF fam = 4 THEN "RtrNotIpv4" ELSE "RtrNotIpv6")
    ELSE IF ~acc.link.some THEN Err("NoLink")
    ELSE Ok([delete |-> delete,
             def |-> [fam |-> fam, dst |-> acc.dst.val.a,
                      prefix_len |-> acc.prefix_len.val,
                      rtr |-> IF acc.rtr.some THEN Some(acc.rtr.val.a) ELSE None,
                      on_link |-> acc.on_link, table |-> acc.table,
                      metric |-> acc.metric, link |-> acc.link.val]])

\* Route::from_str(s), the attribute map being iterated in the order `order`
\* (consulted only when the tokenizer succeeded; a permutation of the keys)
RouteFromStr(words, order) ==
    IF Len(words) = 0 THEN Err("NoVersion")
    ELSE IF words[1] \notin {"route4", "route6"} THEN Err("InvalidVersion")
    ELSE IF Len(words) = 1 THEN Err("NoCmd")
    ELSE IF words[2] \notin {"add", "del"} THEN Err("InvalidCmd")
    ELSE LET fam == IF words[1] = "route4" THEN 4 ELSE 6
             delete == (words[2] = "del")
             tok == Tokenize(SubSeq(words, 3, Len(words)))
         IN  IF ~tok.ok THEN Err(tok.err)
             ELSE LET acc == RouteAttrLoop(tok.val, order, RouteAttrInit)
                  IN  IF acc.err # "" THEN Err(acc.err)
                      ELSE RouteAssemble(fam, delete, acc)

\* the attribute map of a line (empty when the tokenizer is not reached or fails)
AttrsOf(words) ==
    IF Len(words) < 2 THEN EmptyMap
    ELSE LET tok == Tokenize(SubSeq(words, 3, Len(words)))
         IN  IF tok.ok THEN tok.val ELSE EmptyMap

----------------------------------------------------------------------------
(* Rule::from_str *)

RuleAttrInit ==
    [err |-> "", invert |-> FALSE, fwmark |-> None, dst |-> None, src |-> None,
     action |-> None, table |-> None]

RuleActions == {"to_table", "blackhole", "unreachable", "prohibit"}

RuleAttrStep(acc, attr, value) ==
    CASE attr = "invert" ->
           LET r == ParseBool(value) IN
           IF r.ok THEN [acc EXCEPT !.invert = r.val] ELSE [acc EXCEPT !.err = r.err]
      [] attr = "fwmark" ->
           LET r == ParseUInt(value, U32Bits) IN
           IF r.ok THEN [acc EXCEPT !.fwmark = Some(r.val)] ELSE [acc EXCEPT !.err = r.err]
      [] attr = "dst" ->
           LET p == ParsePrefix(value) IN
           IF p.ok THEN [acc EXCEPT !.dst = Some(p.val)] ELSE [acc EXCEPT !.err = p.err]
      [] attr = "src" ->
           LET p == ParsePrefix(value) IN
           IF p.ok THEN [acc EXCEPT !.src = Some(p.val)] ELSE [acc EXCEPT !.err = p.err]
      [] attr = "action" ->
           IF value \in RuleActions THEN [acc EXCEPT !.action = Some(value)]
           ELSE [acc EXCEPT !.err = "InvalidAction"]
      [] attr = "table" ->
           LET r == ParseUInt(value, U32Bits) IN
           IF r.ok THEN [acc EXCEPT !.table = Some(r.val)] ELSE [acc EXCEPT !.err = r.err]
      [] OTHER -> [acc EXCEPT !.err = "InvalidAttr"]

RECURSIVE RuleAttrLoop(_, _, _)
RuleAttrLoop(attrs, order, acc) ==
    IF Len(order) = 0 \/ acc.err # "" THEN acc
    ELSE RuleAttrLoop(attrs, Tail(order),
                      RuleAttrStep(acc, Head(order), attrs[Head(order)]))

\* "match version { ... }": version is "both", "v4" or "v6"
RuleAssemble(version, delete, acc) ==
    LET fam == IF version = "v4" THEN 4 ELSE 6
        rule == [delete |-> delete, version |-> version, invert |-> acc.invert,
                 fwmark |-> acc.fwmark, dst |-> acc.dst, src |-> acc.src,
                 action |-> IF acc.action.some THEN acc.action.val ELSE "",
                 table |-> IF acc.table.some THEN acc.table.val ELSE 0]
    IN  IF version = "both"
        THEN IF acc.dst.some THEN Err("DstIllegal")
             ELSE IF acc.src.some THEN Err("SrcIllegal")
             ELSE IF ~acc.action.some THEN Err("NoAction")
             ELSE Ok(rule)
        ELSE IF acc.dst.some /\ acc.dst.val[1].fam # fam
             THEN Err(IF fam = 4 THEN "DstNotIpv4" ELSE "DstNotIpv6")
             ELSE IF acc.src.some /\ acc.src.val[1].fam # fam
             THEN Err(IF fam = 4 THEN "SrcNotIpv4" ELSE "SrcNotIpv6")
             ELSE IF ~acc.action.some THEN Err("NoAction")
             ELSE Ok(rule)

RuleFromStr(words, order) ==
    IF Len(words) = 0 THEN Err("NoVersion")
    ELSE IF words[1] \notin {"rule", "rule4", "rule6"} THEN Err("InvalidVersion")
    ELSE IF Len(words) = 1 THEN Err("NoCmd")
    ELSE IF words[2] \notin {"add", "del"} THEN Err("InvalidCmd")
    ELSE LET version == CASE words[1] = "rule" -> "both"
                          [] words[1] = "rule4" -> "v4"
                          [] OTHER -> "v6"
             delete == (words[2] = "del")
             tok == Tokenize(SubSeq(words, 3, Len(words)))
         IN  IF ~tok.ok THEN Err(tok.err)
             ELSE LET acc == RuleAttrLoop(tok.val, order, RuleAttrInit)
                  IN  IF acc.err # "" THEN Err(acc.err)
                      ELSE RuleAssemble(version, delete, acc)

----------------------------------------------------------------------------
(* Display: the text of a parsed value, as the words split_whitespace      *)
(* finds in it                                                             *)

\* <u8 as Display>::fmt / <u32 as Display>::fmt on the numbers of the vocabulary
NumWord(n) ==
    CASE n = 0   -> "0"
      [] n = 1   -> "1"
      [] n = 7   -> "7"
      [] n = 8   -> "8"
      [] n = 50  -> "50"
      [] n = 300 -> "300"
      [] OTHER   -> "?"

\* the word "{}/{}" written for an address and a prefix length
SlashWord(a, n) ==
    CASE a = "10.0.0.0" /\ n = 8 -> "10.0.0.0/8"
      [] a = "fd00::" /\ n = 8   -> "fd00::/8"
      [] OTHER                   -> "?/?"

\* <RouteDef as Display>::fmt
RouteDefFmt(def) ==
    <<IF def.fam = 4 THEN "route4" ELSE "route6", SlashWord(def.dst, def.prefix_len)>>
      \o (IF def.rtr.some THEN <<"via", def.rtr.val>> ELSE <<>>)
      \o (IF def.on_link THEN <<"onlink">> ELSE <<>>)
      \o (IF def.table.some THEN <<"table", NumWord(def.table.val)>> ELSE <<>>)
      \o (IF def.metric.some THEN <<"metric", NumWord(def.metric.val)>> ELSE <<>>)
      \o <<"dev", def.link>>

\* <Route as Display>::fmt
RouteFmt(route) == RouteDefFmt(route.def)

\* <Rule as Display>::fmt
RuleFmt(rule) ==
    <<CASE rule.version = "both" -> "rule"
        [] rule.version = "v4"   -> "rule4"
        [] OTHER                 -> "rule6">>
      \o (IF rule.invert THEN <<"invert", "true">> ELSE <<>>)
      \o (IF rule.fwmark.some THEN <<"fwmark", NumWord(rule.fwmark.val)>> ELSE <<>>)
      \o (IF rule.dst.some
          THEN <<"dst", SlashWord(rule.dst.val[1].a, rule.dst.val[2])>> ELSE <<>>)
      \o (IF rule.src.some
          THEN <<"src", SlashWord(rule.src.val[1].a, rule.src.val[2])>> ELSE <<>>)
      \o <<"action", rule.action>>
      \o (IF rule.action = "to_table" THEN <<"table", NumWord(rule.table)>> ELSE <<>>)

----------------------------------------------------------------------------
(* Routes::from_str and Rules::from_str *)

\* one iteration order per line of the text
RECURSIVE OrderSeqs(_)
OrderSeqs(lines) ==
    IF lines = <<>> THEN {<<>>}
    ELSE {<<o>> \o rest : o \in IterationOrders(AttrsOf(Head(lines))),
                          rest \in OrderSeqs(Tail(lines))}

\* s.lines().map(|l| l.parse::<Route>()).collect::<Result<Vec<Route>, _>>()
RECURSIVE RoutesFromStr(_, _)
RoutesFromStr(lines, orders) ==
    IF lines = <<>> THEN Ok(<<>>)
    ELSE LET r == RouteFromStr(Head(lines), Head(orders)) IN
         IF ~r.ok THEN Err(r.err)
         ELSE LET rest == RoutesFromStr(Tail(lines), Tail(orders)) IN
              IF rest.ok THEN Ok(<<r.val>> \o rest.val) ELSE rest

\* mutant of RulesFromStr: empty and whitespace-only lines are skipped
RECURSIVE RulesFromStrSkipBlank(_, _)
RulesFromStrSkipBlank(lines, orders) ==
    IF lines = <<>> THEN Ok(<<>>)
    ELSE IF Head(lines) = <<>> THEN RulesFromStrSkipBlank(Tail(lines), Tail(orders))
    ELSE LET r == RuleFromStr(Head(lines), Head(orders)) IN
         IF ~r.ok THEN Err(r.err)
         ELSE LET rest == RulesFromStrSkipBlank(Tail(lines), Tail(orders)) IN
              IF rest.ok THEN Ok(<<r.val>> \o rest.val) ELSE rest

\* s.lines().map(|l| l.parse::<Rule>()).collect::<Result<Vec<Rule>, _>>()
RECURSIVE RulesFromStr(_, _)
RulesFromStr(lines, orders) ==
    IF lines = <<>> THEN Ok(<<>>)
    ELSE LET r == RuleFromStr(Head(lines), Head(orders)) IN
         IF ~r.ok THEN Err(r.err)
         ELSE LET rest == RulesFromStr(Tail(lines), Tail(orders)) IN
              IF rest.ok THEN Ok(<<r.val>> \o rest.val) ELSE rest

----------------------------------------------------------------------------
(* The Kernel Routing Interface: the kernel as a set of installed keys.    *)
(* A delete of an absent key and an add of a present key fail without      *)
(* effect; `rejected` is the kernel refusing the request for another       *)
(* reason (permissions, a missing table, a netlink error); `refused`       *)
(* counts the requests that failed for that other reason alone.            *)

KernelDel(k, key, rejected) ==
    IF key \notin k THEN [ok |-> FALSE, kernel |-> k, refused |-> 0]
    ELSE IF rejected THEN [ok |-> FALSE, kernel |-> k, refused |-> 1]
    ELSE [ok |-> TRUE, kernel |-> k \ {key}, refused |-> 0]

KernelAdd(k, key, rejected) ==
    IF key \in k THEN [ok |-> FALSE, kernel |-> k, refused |-> 0]
    ELSE IF rejected THEN [ok |-> FALSE, kernel |-> k, refused |-> 1]
    ELSE [ok |-> TRUE, kernel |-> k \cup {key}, refused |-> 0]

\* a Connection call as recorded in `calls`
Call(op, obj, fam, entry, key, ok) ==
    [op |-> op, obj |-> obj, fam |-> fam, entry |-> entry, key |-> key, ok |-> ok]

\* mutant of RouteDefDelete: no delete is sent to the kernel
RouteDefDeleteSkipped(k, def, entry, rejected) ==
    [ok |-> TRUE, kernel |-> k, refused |-> 0, calls |-> <<>>]

\* RouteDef::delete : c.route_del4(r) / c.route_del6(r)
RouteDefDelete(k, def, entry, rejected) ==
    LET r == KernelDel(k, def, rejected)
    IN  [ok |-> r.ok, kernel |-> r.kernel, refused |-> r.refused,
         calls |-> <<Call("del", "route", def.fam, entry, def, r.ok)>>]

\* RouteDef::add : c.route_add4(r) / c.route_add6(r)
RouteDefAdd(k, def, entry, rejected) ==
    LET r == KernelAdd(k, def, rejected)
    IN  [ok |-> r.ok, kernel |-> r.kernel, refused |-> r.refused,
         calls |-> <<Call("add", "route", def.fam, entry, def, r.ok)>>]

\* the closures of Rule::add / Rule::delete that end in unreachable!()
HitsUnreachable(rule) ==
    LET fam == IF rule.version = "v4" THEN 4 ELSE 6
    IN  /\ rule.version # "both"
        /\ \/ rule.dst.some /\ rule.dst.val[1].fam # fam
           \/ rule.src.some /\ rule.src.val[1].fam # fam

\* the rsdsl_netlinklib::rule::Rule::<Ipv4Addr / Ipv6Addr> built from a Rule
StripFamily(prefix) ==
    IF prefix.some THEN Some(<<prefix.val[1].a, prefix.val[2]>>) ELSE None

NetlinkRule(rule, fam) ==
    [fam |-> fam, invert |-> rule.invert, fwmark |-> rule.fwmark,
     dst |-> IF rule.version = "both" THEN None ELSE StripFamily(rule.dst),
     src |-> IF rule.version = "both" THEN None ELSE StripFamily(rule.src),
     action |-> rule.action, table |-> rule.table]

\* Rule::delete : rej[1], rej[2] are the kernel's refusals of the calls
RuleDeleteCalls(k, rule, entry, rej) ==
    IF rule.version = "both"
    THEN LET r4 == KernelDel(k, NetlinkRule(rule, 4), rej[1])
             c4 == Call("del", "rule", 4, entry, NetlinkRule(rule, 4), r4.ok)
         IN  IF ~r4.ok THEN [ok |-> FALSE, kernel |-> r4.kernel, refused |-> r4.refused,
                                 calls |-> <<c4>>]
             ELSE LET r6 == KernelDel(r4.kernel, NetlinkRule(rule, 6), rej[2])
                      c6 == Call("del", "rule", 6, entry, NetlinkRule(rule, 6), r6.ok)
                  IN  [ok |-> r6.ok, kernel |-> r6.kernel,
                       refused |-> r4.refused + r6.refused, calls |-> <<c4, c6>>]
    ELSE LET fam == IF rule.version = "v4" THEN 4 ELSE 6
             r == KernelDel(k, NetlinkRule(rule, fam), rej[1])
         IN  [ok |-> r.ok, kernel |-> r.kernel, refused |-> r.refused,
              calls |-> <<Call("del", "rule", fam, entry, NetlinkRule(rule, fam), r.ok)>>]

\* Rule::add
RuleAddCalls(k, rule, entry, rej) ==
    IF rule.version = "both"
    THEN LET r4 == KernelAdd(k, NetlinkRule(rule, 4), rej[1])
             c4 == Call("add", "rule", 4, entry, NetlinkRule(rule, 4), r4.ok)
         IN  IF ~r4.ok THEN [ok |-> FALSE, kernel |-> r4.kernel, refused |-> r4.refused,
                                 calls |-> <<c4>>]
             ELSE LET r6 == KernelAdd(r4.kernel, NetlinkRule(rule, 6), rej[2])
                      c6 == Call("add", "rule", 6, entry, NetlinkRule(rule, 6), r6.ok)
                  IN  [ok |-> r6.ok, kernel |-> r6.kernel,
                       refused |-> r4.refused + r6.refused, calls |-> <<c4, c6>>]
    ELSE LET fam == IF rule.version = "v4" THEN 4 ELSE 6
             r == KernelAdd(k, NetlinkRule(rule, fam), rej[1])
         IN  [ok |-> r.ok, kernel |-> r.kernel, refused |-> r.refused,
              calls |-> <<Call("add", "rule", fam, entry, NetlinkRule(rule, fam), r.ok)>>]

----------------------------------------------------------------------------
(* Bounds and the definition lines the files are made of *)

MaxLines == 2    \* lines per definition file
MaxFaults == 1   \* kernel calls refused for a reason other than presence
MaxRuns == 2     \* process starts (re-application after an external restart)
MaxAttrs == 3    \* attribute pairs of a line handed to the parser harness

RouteFileLines ==
    { <<"route4", "add", "to", "10.0.0.0/8", "dev", "eth0">>,
      <<"route4", "del", "to", "10.0.0.0/8", "dev", "eth0">>,
      <<"route4", "add", "to", "10.0.0.0/8">>,
      <<>> }

RuleFileLines ==
    { <<"rule", "add", "action", "to_table", "table", "50">>,
      <<"rule", "del", "action", "to_table", "table", "50">>,
      <<"rule6", "add", "action", "to_table", "table", "50">>,
      <<>> }

\* the texts of at most MaxLines lines over a set of lines
Texts(lineSet) == UNION {[1..n -> lineSet] : n \in 0..MaxLines}

Files(lineSet) ==
    {[readable |-> FALSE, text |-> <<>>]}
        \cup {[readable |-> TRUE, text |-> t] : t \in Texts(lineSet)}

\* every route / rule key a definition line of the vocabulary can name
KernelUniverse ==
    LET routeDefs == UNION {{RouteFromStr(l, o) : o \in IterationOrders(AttrsOf(l))}
                                : l \in RouteFileLines}
        ruleDefs == UNION {{RuleFromStr(l, o) : o \in IterationOrders(AttrsOf(l))}
                               : l \in RuleFileLines}
    IN  {r.val.def : r \in {x \in routeDefs : x.ok}}
            \cup UNION {IF r.val.version = "both"
                        THEN {NetlinkRule(r.val, 4), NetlinkRule(r.val, 6)}
                        ELSE {NetlinkRule(r.val, IF r.val.version = "v4" THEN 4 ELSE 6)}
                        : r \in {x \in ruleDefs : x.ok}}

----------------------------------------------------------------------------
(* run() and main() *)

Running == [done |-> FALSE, ok |-> FALSE, err |-> "", cause |-> ""]
RunOk == [done |-> TRUE, ok |-> TRUE, err |-> "", cause |-> ""]
RunErr(e, cause) == [done |-> TRUE, ok |-> FALSE, err |-> e, cause |-> cause]

Pending == [pending |-> TRUE]

PcValues ==
    {"read_routes", "parse_routes", "read_rules", "parse_rules", "connect",
     "route_del", "route_wait", "route_add", "rule_del", "rule_add",
     "returned", "parked", "exited", "panicked", "off"}

\* where the for loops go after the entry at index i of `list` is done
\* (list is "conn" right after the connection, "route" or "rule")
LoopNext(list, i) ==
    IF list = "conn" /\ Len(routes) > 0 THEN [pc |-> "route_del", idx |-> 1]
    ELSE IF list = "route" /\ i < Len(routes) THEN [pc |-> "route_del", idx |-> i + 1]
    ELSE IF list \in {"conn", "route"} /\ Len(rules) > 0 THEN [pc |-> "rule_del", idx |-> 1]
    ELSE IF list = "rule" /\ i < Len(rules) THEN [pc |-> "rule_del", idx |-> i + 1]
    ELSE [pc |-> "returned", idx |-> 0]

\* the loops move on (run() returns Ok(()) when both are exhausted)
Advance(list, i) ==
    /\ pc' = LoopNext(list, i).pc
    /\ idx' = LoopNext(list, i).idx
    /\ result' = IF LoopNext(list, i).pc = "returned" THEN RunOk ELSE result

\* run() returns Err(e)
Fail(e, cause) ==
    /\ pc' = "returned"
    /\ idx' = 0
    /\ result' = RunErr(e, cause)

RunInit ==
    /\ pc = "read_routes"
    /\ routesFile \in Files(RouteFileLines)
    /\ rulesFile \in Files(RuleFileLines)
    /\ routes = <<>>
    /\ rules = <<>>
    /\ idx = 0
    /\ conn = FALSE
    /\ kernel \in SUBSET KernelUniverse
    /\ calls = <<>>
    /\ parsed = {}
    /\ result = Running
    /\ reports = 0
    /\ faults = 0
    /\ runs = 1
    /\ prevKernel = None

LineIdle ==
    /\ line = <<>>
    /\ lineKind = "none"
    /\ lineResult = Pending
    /\ lineAgain = Pending

Init == RunInit /\ LineIdle

\* std::fs::read_to_string(ROUTES_PATH)
ReadRoutes ==
    /\ pc = "read_routes"
    /\ IF routesFile.readable
       THEN pc' = "parse_routes" /\ UNCHANGED <<idx, result>>
       ELSE Fail("ReadRoutes", "")
    /\ UNCHANGED <<routesFile, rulesFile, routes, rules, conn, kernel, calls, parsed,
                   reports, faults, runs, prevKernel, lineVars>>

\* let routes: Routes = routes.parse()?
ParseRoutes ==
    /\ pc = "parse_routes"
    /\ parsed' = parsed \cup {"routes"}
    /\ \E orders \in OrderSeqs(routesFile.text) :
         LET r == RoutesFromStr(routesFile.text, orders) IN
         IF r.ok
         THEN routes' = r.val /\ pc' = "read_rules" /\ UNCHANGED <<idx, result>>
         ELSE Fail("ParseRoutes", r.err) /\ UNCHANGED routes
    /\ UNCHANGED <<routesFile, rulesFile, rules, conn, kernel, calls,
                   reports, faults, runs, prevKernel, lineVars>>

\* std::fs::read_to_string(RULES_PATH)
ReadRules ==
    /\ pc = "read_rules"
    /\ IF rulesFile.readable
       THEN pc' = "parse_rules" /\ UNCHANGED <<idx, result>>
       ELSE Fail("ReadRules", "")
    /\ UNCHANGED <<routesFile, rulesFile, routes, rules, conn, kernel, calls, parsed,
                   reports, faults, runs, prevKernel, lineVars>>

\* let rules: Rules = rules.parse()?
ParseRules ==
    /\ pc = "parse_rules"
    /\ parsed' = parsed \cup {"rules"}
    /\ \E orders \in OrderSeqs(rulesFile.text) :
         LET r == RulesFromStr(rulesFile.text, orders) IN
         IF r.ok
         THEN rules' = r.val /\ pc' = "connect" /\ UNCHANGED <<idx, result>>
         ELSE Fail("ParseRules", r.err) /\ UNCHANGED rules
    /\ UNCHANGED <<routesFile, rulesFile, routes, conn, kernel, calls,
                   reports, faults, runs, prevKernel, lineVars>>

\* mutant of Connect: the result of Connection::new() is not checked
ConnectUnchecked ==
    /\ pc = "connect"
    /\ \E established \in BOOLEAN :
         /\ conn' = established
         /\ Advance("conn", 0)
    /\ UNCHANGED <<routesFile, rulesFile, routes, rules, kernel, calls, parsed,
                   reports, faults, runs, prevKernel, lineVars>>

\* let conn = Connection::new().map_err(SetupError::from)?
Connect ==
    /\ pc = "connect"
    /\ \E established \in BOOLEAN :
         /\ conn' = established
         /\ IF established THEN Advance("conn", 0) ELSE Fail("Setup", "connect")
    /\ UNCHANGED <<routesFile, rulesFile, routes, rules, kernel, calls, parsed,
                   reports, faults, runs, prevKernel, lineVars>>

\* mutant of RouteDelete: the loop does not wait for the link
RouteDeleteNoWait(budget) ==
    /\ pc = "route_del"
    /\ \E rejected \in BOOLEAN :
         LET r == RouteDefDelete(kernel, routes[idx].def, idx, rejected) IN
         /\ faults + r.refused <= budget
         /\ kernel' = r.kernel
         /\ calls' = calls \o r.calls
         /\ faults' = faults + r.refused
    /\ IF routes[idx].delete
       THEN Advance("route", idx)
       ELSE pc' = "route_add" /\ UNCHANGED <<idx, result>>
    /\ UNCHANGED <<routesFile, rulesFile, routes, rules, conn, parsed,
                   reports, runs, prevKernel, lineVars>>

\* match route.def.clone().delete(&conn) { Ok => info, Err => warn }
RouteDelete(budget) ==
    /\ pc = "route_del"
    /\ \E rejected \in BOOLEAN :
         LET r == RouteDefDelete(kernel, routes[idx].def, idx, rejected) IN
         /\ faults + r.refused <= budget
         /\ kernel' = r.kernel
         /\ calls' = calls \o r.calls
         /\ faults' = faults + r.refused
    /\ pc' = "route_wait"
    /\ UNCHANGED <<routesFile, rulesFile, routes, rules, idx, conn, parsed, result,
                   reports, runs, prevKernel, lineVars>>

\* conn.link_wait_exists(link) returned Ok: the interface exists
RouteLinkWaitOk ==
    /\ pc = "route_wait"
    /\ calls' = Append(calls, Call("wait", "route", routes[idx].def.fam, idx,
                                   routes[idx].def.link, TRUE))
    /\ IF routes[idx].delete
       THEN Advance("route", idx)
       ELSE pc' = "route_add" /\ UNCHANGED <<idx, result>>
    /\ UNCHANGED <<routesFile, rulesFile, routes, rules, conn, kernel, parsed,
                   reports, faults, runs, prevKernel, lineVars>>

\* conn.link_wait_exists(link).map_err(SetupError::from)? returned Err
RouteLinkWaitErr ==
    /\ pc = "route_wait"
    /\ calls' = Append(calls, Call("wait", "route", routes[idx].def.fam, idx,
                                   routes[idx].def.link, FALSE))
    /\ Fail("Setup", "link_wait")
    /\ UNCHANGED <<routesFile, rulesFile, routes, rules, conn, kernel, parsed,
                   reports, faults, runs, prevKernel, lineVars>>

\* if !route.delete { match route.def.clone().add(&conn) { ... } }
RouteAdd(budget) ==
    /\ pc = "route_add"
    /\ \E rejected \in BOOLEAN :
         LET r == RouteDefAdd(kernel, routes[idx].def, idx, rejected) IN
         /\ faults + r.refused <= budget
         /\ kernel' = r.kernel
         /\ calls' = calls \o r.calls
         /\ faults' = faults + r.refused
    /\ Advance("route", idx)
    /\ UNCHANGED <<routesFile, rulesFile, routes, rules, conn, parsed,
                   reports, runs, prevKernel, lineVars>>

\* the kernel's answers to the n calls of one Rule::delete / Rule::add
Refusals(n) == [1..n -> BOOLEAN]

\* match rule.clone().delete(&conn) { Ok => info, Err => warn }
RuleDelete(budget) ==
    /\ pc = "rule_del"
    /\ IF HitsUnreachable(rules[idx])
       THEN pc' = "panicked" /\ UNCHANGED <<idx, result, kernel, calls, faults>>
       ELSE /\ \E rej \in Refusals(2) :
                 LET r == RuleDeleteCalls(kernel, rules[idx], idx, rej) IN
                 /\ faults + r.refused <= budget
                 /\ kernel' = r.kernel
                 /\ calls' = calls \o r.calls
                 /\ faults' = faults + r.refused
            /\ IF rules[idx].delete
               THEN Advance("rule", idx)
               ELSE pc' = "rule_add" /\ UNCHANGED <<idx, result>>
    /\ UNCHANGED <<routesFile, rulesFile, routes, rules, conn, parsed,
                   reports, runs, prevKernel, lineVars>>

\* if !rule.delete { match rule.clone().add(&conn) { ... } }
RuleAdd(budget) ==
    /\ pc = "rule_add"
    /\ IF HitsUnreachable(rules[idx])
       THEN pc' = "panicked" /\ UNCHANGED <<idx, result, kernel, calls, faults>>
       ELSE /\ \E rej \in Refusals(2) :
                 LET r == RuleAddCalls(kernel, rules[idx], idx, rej) IN
                 /\ faults + r.refused <= budget
                 /\ kernel' = r.kernel
                 /\ calls' = calls \o r.calls
                 /\ faults' = faults + r.refused
            /\ Advance("rule", idx)
    /\ UNCHANGED <<routesFile, rulesFile, routes, rules, conn, parsed,
                   reports, runs, prevKernel, lineVars>>

\* mutant of Main: the process parks whatever run() returned
MainParkAlways ==
    /\ pc = "returned"
    /\ pc' = "parked"
    /\ reports' = IF result.ok THEN reports ELSE reports + 1
    /\ UNCHANGED <<routesFile, rulesFile, routes, rules, idx, conn, kernel, calls,
                   parsed, result, faults, runs, prevKernel, lineVars>>

\* main: match run() { Ok(()) => loop { park() }, Err(e) => eprintln!(...) }
Main ==
    /\ pc = "returned"
    /\ IF result.ok
       THEN pc' = "parked" /\ UNCHANGED reports
       ELSE pc' = "exited" /\ reports' = reports + 1
    /\ UNCHANGED <<routesFile, rulesFile, routes, rules, idx, conn, kernel, calls,
                   parsed, result, faults, runs, prevKernel, lineVars>>

Next ==
    \/ ReadRoutes
    \/ ParseRoutes
    \/ ReadRules
    \/ ParseRules
    \/ Connect
    \/ RouteDelete(MaxFaults)
    \/ RouteLinkWaitOk
    \/ RouteLinkWaitErr
    \/ RouteAdd(MaxFaults)
    \/ RuleDelete(MaxFaults)
    \/ RuleAdd(MaxFaults)
    \/ Main

Spec == Init /\ [][Next]_vars

----------------------------------------------------------------------------
(* Re-application: the process is started again by its supervisor (after a *)
(* reboot or a reset of the network stack) over the same definition files  *)
(* and the kernel state the parked process left.                           *)

Restart ==
    /\ pc = "parked"
    /\ runs < MaxRuns
    /\ runs' = runs + 1
    /\ prevKernel' = Some(kernel)
    /\ pc' = "read_routes"
    /\ routes' = <<>>
    /\ rules' = <<>>
    /\ idx' = 0
    /\ conn' = FALSE
    /\ calls' = <<>>
    /\ parsed' = {}
    /\ result' = Running
    /\ reports' = 0
    /\ UNCHANGED <<routesFile, rulesFile, kernel, faults, lineVars>>

\* the kernel refuses a request only for the presence / absence of its key
ReapplyNext ==
    \/ ReadRoutes
    \/ ParseRoutes
    \/ ReadRules
    \/ ParseRules
    \/ Connect
    \/ RouteDelete(0)
    \/ RouteLinkWaitOk
    \/ RouteLinkWaitErr
    \/ RouteAdd(0)
    \/ RuleDelete(0)
    \/ RuleAdd(0)
    \/ Main
    \/ Restart

ReapplySpec == Init /\ [][ReapplyNext]_vars

----------------------------------------------------------------------------
(* Parser harness: Route::from_str / Rule::from_str applied to one line    *)

RoutePairs ==
    << <<"to", "10.0.0.0/8">>, <<"to", "fd00::/8">>, <<"to", "10.0.0.0">>,
       <<"to", "10.0.0.0/8/1">>, <<"to", "10.0.0.0/300">>, <<"to", "net/8">>,
       <<"via", "10.0.0.1">>, <<"via", "fd00::1">>, <<"via", "gw">>,
       <<"onlink", "true">>, <<"onlink", "maybe">>, <<"table", "50">>,
       <<"metric", "x">>, <<"dev", "eth0">>, <<"mtu", "1">> >>

RulePairs ==
    << <<"invert", "true">>, <<"fwmark", "7">>, <<"fwmark", "x">>,
       <<"dst", "10.0.0.0/8">>, <<"dst", "fd00::/8">>, <<"dst", "10.0.0.0">>,
       <<"src", "10.0.0.0/8">>, <<"src", "fd00::/8">>,
       <<"action", "to_table">>, <<"action", "blackhole">>, <<"action", "goto">>,
       <<"table", "50">>, <<"prio", "1">> >>

RouteHeads ==
    {<<"route4", "add">>, <<"route4", "del">>, <<"route6", "add">>,
     <<"route5", "add">>, <<"route4", "mod">>}

RuleHeads ==
    {<<"rule", "add">>, <<"rule", "del">>, <<"rule4", "add">>, <<"rule6", "add">>,
     <<"rule5", "add">>, <<"rule", "mod">>}

\* the words of the pairs chosen by the index set S, in vocabulary order
RECURSIVE PairWords(_, _, _)
PairWords(pairs, S, i) ==
    IF i > Len(pairs) THEN <<>>
    ELSE (IF i \in S THEN pairs[i] ELSE <<>>) \o PairWords(pairs, S, i + 1)

\* head, at most MaxAttrs attribute pairs, and possibly a key left without value
LinesOver(heads, pairs, danglingKey) ==
    {h \o PairWords(pairs, S, 1) \o d :
        h \in heads,
        S \in {T \in SUBSET (1..Len(pairs)) : Cardinality(T) <= MaxAttrs},
        d \in {<<>>, <<danglingKey>>}}

RouteLines == {<<>>, <<"route4">>} \cup LinesOver(RouteHeads, RoutePairs, "dev")
RuleLines == {<<>>, <<"rule">>} \cup LinesOver(RuleHeads, RulePairs, "action")

RunIdle ==
    /\ pc = "off"
    /\ routesFile = [readable |-> FALSE, text |-> <<>>]
    /\ rulesFile = [readable |-> FALSE, text |-> <<>>]
    /\ routes = <<>>
    /\ rules = <<>>
    /\ idx = 0
    /\ conn = FALSE
    /\ kernel = {}
    /\ calls = <<>>
    /\ parsed = {}
    /\ result = Running
    /\ reports = 0
    /\ faults = 0
    /\ runs = 0
    /\ prevKernel = None

ParseInit ==
    /\ RunIdle
    /\ lineResult = Pending
    /\ lineAgain = Pending
    /\ \/ lineKind = "route" /\ line \in RouteLines
       \/ lineKind = "rule" /\ line \in RuleLines

\* line.parse::<Route>()
ParseRouteLine ==
    /\ lineKind = "route"
    /\ lineResult = Pending
    /\ \E order \in IterationOrders(AttrsOf(line)) :
         lineResult' = RouteFromStr(line, order)
    /\ UNCHANGED <<runVars, line, lineKind, lineAgain>>

\* line.parse::<Rule>()
ParseRuleLine ==
    /\ lineKind = "rule"
    /\ lineResult = Pending
    /\ \E order \in IterationOrders(AttrsOf(line)) :
         lineResult' = RuleFromStr(line, order)
    /\ UNCHANGED <<runVars, line, lineKind, lineAgain>>

\* route.to_string().parse::<Route>() on the Route the line parsed to
ReparseRouteLine ==
    /\ lineKind = "route"
    /\ lineResult # Pending
    /\ lineResult.ok
    /\ lineAgain = Pending
    /\ LET text == RouteFmt(lineResult.val) IN
       \E order \in IterationOrders(AttrsOf(text)) :
         lineAgain' = [text |-> text, result |-> RouteFromStr(text, order)]
    /\ UNCHANGED <<runVars, line, lineKind, lineResult>>

\* rule.to_string().parse::<Rule>() on the Rule the line parsed to
ReparseRuleLine ==
    /\ lineKind = "rule"
    /\ lineResult # Pending
    /\ lineResult.ok
    /\ lineAgain = Pending
    /\ LET text == RuleFmt(lineResult.val) IN
       \E order \in IterationOrders(AttrsOf(text)) :
         lineAgain' = [text |-> text, result |-> RuleFromStr(text, order)]
    /\ UNCHANGED <<runVars, line, lineKind, lineResult>>

ParseNext ==
    \/ ParseRouteLine
    \/ ParseRuleLine
    \/ ReparseRouteLine
    \/ ReparseRuleLine

ParseSpec == ParseInit /\ [][ParseNext]_vars

----------------------------------------------------------------------------
(* Vocabulary of the properties *)

CallIdx == DOMAIN calls

\* the calls issued for the entry e of the list obj ("route" or "rule")
EntryCalls(op, obj, e) ==
    {i \in CallIdx : calls[i].op = op /\ calls[i].obj = obj /\ calls[i].entry = e}

\* the kernel keys an entry's parsed specification stands for
EntryKeys(obj, e) ==
    IF obj = "route" THEN {routes[e].def}
    ELSE IF rules[e].version = "both"
         THEN {NetlinkRule(rules[e], 4), NetlinkRule(rules[e], 6)}
         ELSE {NetlinkRule(rules[e], IF rules[e].version = "v4" THEN 4 ELSE 6)}

\* the family of the first kernel call Rule::add / Rule::delete make for a rule
FirstFam(rule) == IF rule.version = "v6" THEN 6 ELSE 4

\* the invocations of RouteDef::add / Rule::add for an entry
AddAttempts(obj, e) ==
    IF obj = "route" THEN EntryCalls("add", "route", e)
    ELSE {i \in EntryCalls("add", "rule", e) : calls[i].fam = FirstFam(rules[e])}

ObjRank(obj) == IF obj = "route" THEN 0 ELSE 1
PhaseRank(op) == CASE op = "del" -> 0 [] op = "wait" -> 1 [] OTHER -> 2

\* call c belongs to the same or an earlier step of the loops than call d
NotAfter(c, d) ==
    \/ ObjRank(c.obj) < ObjRank(d.obj)
    \/ /\ c.obj = d.obj
       /\ \/ c.entry < d.entry
          \/ c.entry = d.entry /\ PhaseRank(c.op) <= PhaseRank(d.op)

\* every entry of both lists went through its delete, its wait and its add
AllEntriesReconciled ==
    /\ \A e \in DOMAIN routes :
         /\ EntryCalls("del", "route", e) # {}
         /\ \E i \in EntryCalls("wait", "route", e) : calls[i].ok
         /\ (EntryCalls("add", "route", e) # {}) <=> ~routes[e].delete
    /\ \A e \in DOMAIN rules :
         /\ EntryCalls("del", "rule", e) # {}
         /\ (EntryCalls("add", "rule", e) # {}) <=> ~rules[e].delete

\* the lines of the vocabulary that parse, in whatever order the map is iterated
ValidRouteFileLines ==
    {l \in RouteFileLines : \A o \in IterationOrders(AttrsOf(l)) : RouteFromStr(l, o).ok}

ValidRuleFileLines ==
    {l \in RuleFileLines : \A o \in IterationOrders(AttrsOf(l)) : RuleFromStr(l, o).ok}

\* both files can be read and every line of them parses
DefinitionsValid ==
    /\ routesFile.readable
    /\ rulesFile.readable
    /\ \A n \in DOMAIN routesFile.text : routesFile.text[n] \in ValidRouteFileLines
    /\ \A n \in DOMAIN rulesFile.text : rulesFile.text[n] \in ValidRuleFileLines

----------------------------------------------------------------------------
(* C1 *)

\* C1: every add issued for a route or rule entry is preceded, in the same
\* run, by a delete issued for the same entry with a key of that entry's
\* parsed specification; and once run() has gone through both lists every
\* entry, whatever its delete flag, has had its delete issued.
C1_DeleteBeforeAdd ==
    /\ \A i \in CallIdx :
         calls[i].op = "add" =>
           \E j \in 1..(i - 1) :
             /\ calls[j].op = "del"
             /\ calls[j].obj = calls[i].obj
             /\ calls[j].entry = calls[i].entry
             /\ calls[j].key \in EntryKeys(calls[i].obj, calls[i].entry)
    /\ (result.done /\ result.ok) =>
         /\ \A e \in DOMAIN routes : EntryCalls("del", "route", e) # {}
         /\ \A e \in DOMAIN rules : EntryCalls("del", "rule", e) # {}

\* an add entry got its add, and a del entry of the same run got its delete
C1_Witness ==
    /\ \E i \in CallIdx : calls[i].op = "add" /\ calls[i].obj = "route"
    /\ \E i \in CallIdx : calls[i].op = "add" /\ calls[i].obj = "rule"
    /\ \E i \in CallIdx :
         calls[i].op = "del" /\ calls[i].obj = "route" /\ routes[calls[i].entry].delete

----------------------------------------------------------------------------
(* C2 *)

\* C2: the calls are issued in file order, routes before rules, one entry at
\* a time (each call belongs to the same or a later step than the call before
\* it): a call for a later entry (a later route, or any rule) is issued
\* only after the link wait of every earlier route has returned and that
\* route's add, if it has one, was issued; while a link wait has not
\* returned nothing of a later entry has been issued.
C2_StrictOrder ==
    /\ \A i \in CallIdx : i > 1 => NotAfter(calls[i - 1], calls[i])
    /\ \A j \in CallIdx : \A e \in DOMAIN routes :
         (calls[j].obj = "rule" \/ calls[j].entry > e) =>
           /\ \E i \in 1..(j - 1) :
                /\ calls[i].op = "wait"
                /\ calls[i].entry = e
                /\ calls[i].ok
           /\ ~routes[e].delete =>
                \E i \in 1..(j - 1) :
                  calls[i].op = "add" /\ calls[i].obj = "route" /\ calls[i].entry = e
    /\ \A j \in CallIdx :
         (calls[j].obj = "route" /\ calls[j].op = "add") =>
           \E i \in 1..(j - 1) : calls[i].op = "wait" /\ calls[i].entry = calls[j].entry
    /\ pc = "route_wait" =>
         \A j \in CallIdx : calls[j].obj = "route" /\ calls[j].entry <= idx
                            /\ (calls[j].entry = idx => calls[j].op = "del")

\* the second route is blocked in its link wait after the first got its add
C2_Witness ==
    /\ pc = "route_wait"
    /\ idx = 2
    /\ EntryCalls("add", "route", 1) # {}

----------------------------------------------------------------------------
(* C3 *)

\* C3: a kernel operation or link wait is issued (or about to be) only when
\* both files were read, every line of both parsed and the connection was
\* established; a run that failed at startup has issued none.
C3_NoOperationBeforeStartup ==
    /\ (calls # <<>> \/ pc \in {"route_del", "route_wait", "route_add",
                                 "rule_del", "rule_add"})
         => (DefinitionsValid /\ conn)
    /\ (~DefinitionsValid \/ (result.done /\ result.cause = "connect"))
         => (calls = <<>> /\ pc \in {"read_routes", "parse_routes", "read_rules",
                                     "parse_rules", "connect", "returned", "exited"})

\* valid routes were parsed, the rules file has a malformed line: nothing applied
C3_Witness ==
    /\ pc = "exited"
    /\ result.err = "ParseRules"
    /\ Len(routes) > 0
    /\ calls = <<>>

----------------------------------------------------------------------------
(* C4 *)

\* C4 (as claimed): once the connection is established run() never returns
\* an error, and it returns only after every entry was processed.
C4_LoopNeverAborts ==
    (conn /\ result.done) => (result.ok /\ AllEntriesReconciled)

----------------------------------------------------------------------------
(* C5 *)

\* C5 (as claimed): when run() has returned after the connection was
\* established, every entry whose delete flag is false has had exactly one
\* add attempt, issued after its delete (for a route after its link wait),
\* and every entry whose delete flag is true has had none.
C5_AddExactlyOnce ==
    (conn /\ result.done) =>
      /\ \A e \in DOMAIN routes :
           IF routes[e].delete THEN AddAttempts("route", e) = {}
           ELSE /\ Cardinality(AddAttempts("route", e)) = 1
                /\ \A i \in AddAttempts("route", e) :
                     /\ \E j \in 1..(i - 1) : j \in EntryCalls("del", "route", e)
                     /\ \E j \in 1..(i - 1) : j \in EntryCalls("wait", "route", e)
      /\ \A e \in DOMAIN rules :
           IF rules[e].delete THEN AddAttempts("rule", e) = {}
           ELSE /\ Cardinality(AddAttempts("rule", e)) = 1
                /\ \A i \in AddAttempts("rule", e) :
                     \E j \in 1..(i - 1) : j \in EntryCalls("del", "rule", e)

----------------------------------------------------------------------------
(* C6 *)

\* C6: the process is parked only after run() returned Ok, which it does only
\* once every route and rule entry was reconciled; a run() that returned Ok
\* never ends in the error exit; a failed run is reported exactly once and
\* the process then exits without parking; a startup failure (read, parse,
\* connect) has issued no kernel operation; and a parked or exited process
\* issues no further operation and never starts over.
C6_IdleIffSuccess ==
    /\ [](/\ pc = "parked" => (result.done /\ result.ok /\ AllEntriesReconciled)
          /\ (result.done /\ result.ok) => (pc \in {"returned", "parked"} /\ reports = 0)
          /\ (result.done /\ ~result.ok) => pc \in {"returned", "exited"}
          /\ pc = "exited" => (result.done /\ ~result.ok /\ reports = 1)
          /\ reports = (IF pc = "exited" THEN 1 ELSE 0)
          /\ (result.done /\ result.err \in {"ReadRoutes", "ParseRoutes", "ReadRules",
                                             "ParseRules"})
                => (calls = <<>> /\ ~conn)
          /\ (result.done /\ result.cause = "connect") => calls = <<>>)
    /\ [][(pc \in {"parked", "exited"}) => (UNCHANGED <<pc, calls, kernel, reports>>)]_vars

\* a process parked after reconciling at least one route and one rule
C6_Witness ==
    /\ pc = "parked"
    /\ Len(routes) > 0
    /\ Len(rules) > 0

----------------------------------------------------------------------------
(* C7 *)

\* C7 (as claimed): once the add step of a family-agnostic rule entry whose
\* delete flag is false is over, an add of its IPv4 variant and an add of its
\* IPv6 variant have been issued, both without dst / src and with the
\* entry's invert, fwmark, action and table.
C7_BothFamiliesAdded ==
    \A e \in DOMAIN rules :
      (/\ rules[e].version = "both"
       /\ ~rules[e].delete
       /\ EntryCalls("add", "rule", e) # {}) =>
         \A fam \in {4, 6} :
           \E i \in EntryCalls("add", "rule", e) :
             /\ calls[i].fam = fam
             /\ calls[i].key = [fam |-> fam, invert |-> rules[e].invert,
                                fwmark |-> rules[e].fwmark, dst |-> None, src |-> None,
                                action |-> rules[e].action, table |-> rules[e].table]

----------------------------------------------------------------------------
(* C8 *)

\* C8 (as claimed): when a process parks after a run over the same
\* definitions, started from the kernel state a previous parked process
\* left, the kernel state is the one the previous process left.
C8_ReapplyIdempotent ==
    (pc = "parked" /\ prevKernel.some) => kernel = prevKernel.val

----------------------------------------------------------------------------
(* C9 *)

\* the family of the address a word (or the part before its '/') spells
WordFamily(w) ==
    LET r == ParseIpAddr(SplitSlash(w)[1]) IN IF r.ok THEN r.val.fam ELSE 0

LineAttrs == AttrsOf(line)

\* C9: an accepted route line has a `to` address, and a `via` address when
\* present, of the family its version names, and the Route returned carries
\* them; an accepted rule4 / rule6 line has only dst / src of its family, an
\* accepted `rule` line has neither, no dst / src of the line is dropped,
\* and the returned Rule cannot reach unreachable!().
C9_FamilyConsistent ==
    /\ (lineKind = "route" /\ lineResult # Pending /\ lineResult.ok) =>
         LET fam == IF line[1] = "route4" THEN 4 ELSE 6
             def == lineResult.val.def
         IN  /\ def.fam = fam
             /\ "to" \in DOMAIN LineAttrs
             /\ WordFamily(LineAttrs["to"]) = fam
             /\ WordFamily(def.dst) = fam
             /\ ("via" \in DOMAIN LineAttrs) <=> def.rtr.some
             /\ "via" \in DOMAIN LineAttrs =>
                  (WordFamily(LineAttrs["via"]) = fam /\ WordFamily(def.rtr.val) = fam)
    /\ (lineKind = "rule" /\ lineResult # Pending /\ lineResult.ok) =>
         LET rule == lineResult.val
             fam == IF line[1] = "rule4" THEN 4 ELSE 6
         IN  /\ rule.version = (CASE line[1] = "rule" -> "both"
                                  [] line[1] = "rule4" -> "v4"
                                  [] OTHER -> "v6")
             /\ ("dst" \in DOMAIN LineAttrs) <=> rule.dst.some
             /\ ("src" \in DOMAIN LineAttrs) <=> rule.src.some
             /\ line[1] = "rule" => (~rule.dst.some /\ ~rule.src.some)
             /\ (line[1] # "rule" /\ rule.dst.some) =>
                  (WordFamily(LineAttrs["dst"]) = fam /\ rule.dst.val[1].fam = fam)
             /\ (line[1] # "rule" /\ rule.src.some) =>
                  (WordFamily(LineAttrs["src"]) = fam /\ rule.src.val[1].fam = fam)
             /\ ~HitsUnreachable(rule)

\* a route6 line with a gateway and a rule4 line with dst and src, both accepted
C9_Witness ==
    /\ lineResult # Pending
    /\ lineResult.ok
    /\ \/ lineKind = "route" /\ line[1] = "route6" /\ lineResult.val.def.rtr.some
       \/ lineKind = "rule" /\ line[1] = "rule4" /\ lineResult.val.dst.some
            /\ lineResult.val.src.some

----------------------------------------------------------------------------
(* C10 *)

\* every attribute of the line is one Route::from_str accepts on its own
RouteAttrsWellFormed ==
    \A k \in DOMAIN LineAttrs : RouteAttrStep(RouteAttrInit, k, LineAttrs[k]).err = ""

\* the line reaches the family check of Route::from_str
RouteLineReachesAssembly ==
    /\ lineKind = "route"
    /\ lineResult # Pending
    /\ Len(line) >= 2
    /\ line[1] \in {"route4", "route6"}
    /\ line[2] \in {"add", "del"}
    /\ Tokenize(SubSeq(line, 3, Len(line))).ok
    /\ RouteAttrsWellFormed

\* C10 (as claimed): a route line without `to` is rejected with NoDst, one
\* whose `to` is of the other family with DstNotIpv4 / DstNotIpv6, and an
\* otherwise valid one without `dev` with NoLink.
C10_DistinctDstErrors ==
    RouteLineReachesAssembly =>
      LET fam == IF line[1] = "route4" THEN 4 ELSE 6 IN
      /\ "to" \notin DOMAIN LineAttrs => lineResult = Err("NoDst")
      /\ ("to" \in DOMAIN LineAttrs /\ WordFamily(LineAttrs["to"]) # fam) =>
           lineResult = Err(IF fam = 4 THEN "DstNotIpv4" ELSE "DstNotIpv6")
      /\ (/\ "to" \in DOMAIN LineAttrs
          /\ WordFamily(LineAttrs["to"]) = fam
          /\ "via" \in DOMAIN LineAttrs => WordFamily(LineAttrs["via"]) = fam
          /\ "dev" \notin DOMAIN LineAttrs) => lineResult = Err("NoLink")

----------------------------------------------------------------------------
\* C11: parse / render / parse round trip.  Whenever the Display text of the
\* value a valid route or rule line parsed to has been parsed in turn, that
\* second parse succeeded and gave the value of the first (same family, same
\* delete flag, same attribute values).
C11_RoundTrip ==
    lineAgain # Pending =>
        /\ lineAgain.result.ok
        /\ lineAgain.result.val = lineResult.val

----------------------------------------------------------------------------
\* the text of a definition file ("routes" or "rules")
FileText(f) == IF f = "routes" THEN routesFile.text ELSE rulesFile.text

\* no definition line of either file has been handed to a line parser
NoLineParsed == \A f \in parsed : FileText(f) = <<>>

\* C12: read errors abort before any parsing.  When the routes file or the
\* rules file is unreadable, no definition line of either file is ever parsed,
\* and the error run() returns is the read error (ReadRoutes / ReadRules),
\* whatever the other file contains.
C12_ReadErrorBeforeParsing ==
    (~routesFile.readable \/ ~rulesFile.readable) =>
        /\ NoLineParsed
        /\ result.done => result.err \in {"ReadRoutes", "ReadRules"}

----------------------------------------------------------------------------
\* the entries of a list, and the delete flag of one of them
Entries(obj) == IF obj = "route" THEN DOMAIN routes ELSE DOMAIN rules

EntryDelete(obj, e) == IF obj = "route" THEN routes[e].delete ELSE rules[e].delete

\* e is the last entry of its list that names the kernel key
LastNaming(obj, e, key) ==
    /\ key \in EntryKeys(obj, e)
    /\ \A later \in Entries(obj) : later > e => key \notin EntryKeys(obj, later)

\* C13: convergence of a completed run on a kernel that is a set of installed
\* entries.  When the process has parked, every key named in the definitions
\* (for a `rule` entry its IPv4 and its IPv6 variant) is installed if the last
\* entry naming it is an add and absent if the last entry naming it is a del,
\* whatever the kernel held when the run began.
C13_Converges ==
    pc = "parked" =>
        \A obj \in {"route", "rule"} :
          \A e \in Entries(obj) :
            \A key \in EntryKeys(obj, e) :
              LastNaming(obj, e, key) => (key \in kernel <=> ~EntryDelete(obj, e))

----------------------------------------------------------------------------
\* the result of from_str on the line under test, its attribute map being
\* iterated in the order `order`
LineFromStr(order) ==
    IF lineKind = "route" THEN RouteFromStr(line, order) ELSE RuleFromStr(line, order)

\* C14: parsing a line is deterministic.  The result from_str returned for a
\* line (the specification, or the error variant) is the result it returns
\* under every order in which the attribute map can be iterated.
C14_OrderIndependent ==
    lineResult # Pending =>
        \A order \in IterationOrders(LineAttrs) : LineFromStr(order) = lineResult

----------------------------------------------------------------------------
\* the results from_str can return for each line of the files' vocabulary
RouteLineResults ==
    [l \in RouteFileLines |-> {RouteFromStr(l, o) : o \in IterationOrders(AttrsOf(l))}]

RuleLineResults ==
    [l \in RuleFileLines |-> {RuleFromStr(l, o) : o \in IterationOrders(AttrsOf(l))}]

LineResultsOf(f) == IF f = "routes" THEN RouteLineResults ELSE RuleLineResults

\* the list run() holds for a file, and the error it returns for its parse
ParsedList(f) == IF f = "routes" THEN routes ELSE rules

ParseErrorOf(f) == IF f = "routes" THEN "ParseRoutes" ELSE "ParseRules"

\* the number of the first line of a file that does not parse, 0 when all do
FirstFailing(f) ==
    LET bad == {n \in DOMAIN FileText(f) :
                   \E r \in LineResultsOf(f)[FileText(f)[n]] : ~r.ok}
    IN  IF bad = {} THEN 0 ELSE CHOOSE n \in bad : \A m \in bad : n <= m

\* C15: Routes::from_str / Rules::from_str parse every line and fail on the
\* first line that fails.  Once a file's text has been parsed: when every line
\* parses, the list has one entry per line, the entry at each position being
\* the value of the line at that position; otherwise (an empty or
\* whitespace-only line counts as a line and fails with NoVersion) no entry
\* of the file is kept, run() has returned the parse error of the first
\* failing line, and no kernel operation has been issued.
C15_EveryLineOrNothing ==
    \A f \in parsed :
      LET text == FileText(f)
          n == FirstFailing(f)
      IN  IF n = 0
          THEN /\ Len(ParsedList(f)) = Len(text)
               /\ \A i \in DOMAIN text : Ok(ParsedList(f)[i]) \in LineResultsOf(f)[text[i]]
          ELSE /\ ParsedList(f) = <<>>
               /\ result.done /\ ~result.ok /\ result.err = ParseErrorOf(f)
               /\ \E r \in LineResultsOf(f)[text[n]] : ~r.ok /\ result.cause = r.err
               /\ text[n] = <<>> => result.cause = "NoVersion"
               /\ calls = <<>>

\* a routes file of two lines was parsed into two entries, then a rules file
\* whose valid first line is followed by an empty line was rejected
C15_Witness ==
    /\ pc = "exited"
    /\ Len(routesFile.text) = 2
    /\ Len(routes) = 2
    /\ routes[1] # routes[2]
    /\ Len(rulesFile.text) = 2
    /\ rulesFile.text[1] \in ValidRuleFileLines
    /\ rulesFile.text[2] = <<>>
    /\ rules = <<>>
    /\ result = RunErr("ParseRules", "NoVersion")
    /\ calls = <<>>

============================================================================
